---- MODULE Spec2Model ----
(***************************************************************************)
(* Model of the minimal-scraper service.                                   *)
(*                                                                         *)
(*   app/state.py   the in-memory run registry RUNS                        *)
(*   app/main.py    POST /run, the background task _do, GET /runs/{id},    *)
(*                  GET /runs/{id}/download                                *)
(*   app/runner.py  scrape_append_to_csv, scrape_search_to_csv and their   *)
(*                  helpers                                                *)
(*                                                                         *)
(* Three specifications share the variables.  Spec is the HTTP service:    *)
(* the handlers and the background tasks they schedule on the one event    *)
(* loop.  SpecRunner is one direct call of a runner function of            *)
(* app/runner.py, with every configuration, stepped from await to await.   *)
(* SpecConcurrent is several such calls interleaved at their awaits, with  *)
(* a plain configuration.                                                  *)
(*                                                                         *)
(* _do passes the runner functions keywords they do not take (run_id, and  *)
(* the search selectors one by one instead of the search dict), so the     *)
(* call raises TypeError before a runner step is taken: under Spec no run  *)
(* reaches the runner, and the runner is checked through direct calls.     *)
(***************************************************************************)
EXTENDS Integers, Sequences, FiniteSets, TLC

VARIABLES
    RUNS,       \* state.py RUNS: run id -> record
    task,       \* the asyncio task of each run: none | scheduled | awaiting | finished
    resp,       \* the last HTTP exchange: the request and the answer it got
    now,        \* the wall clock, in whole seconds (datetime.utcnow())
    files,      \* the exports/ directory: path -> the rows on disk
    inv         \* the calls of the runner functions: call id -> frame

vars == <<RUNS, task, resp, now, files, inv>>

----------------------------------------------------------------------------
(* Bounds *)

MaxRuns == 2        \* run ids / concurrent runner calls
MaxLen == 2         \* longest input_list
MaxClock == 1       \* the clock ticks at most this many times

RunIds == 1..MaxRuns
Clock == 0..MaxClock

(* Python values *)

None == "None"
\* the truth value of an Optional[str]
Truthy(x) == x # None /\ x # ""

Items == <<"a", "b", "c", "d">>
\* the input lists: the prefixes of Items and their reversals, so that order shows
InputLists ==
    UNION {{SubSeq(Items, 1, n), [k \in 1..n |-> Items[n + 1 - k]]} : n \in 1..MaxLen}

----------------------------------------------------------------------------
(* main.py: the request models *)

\* class Selector: name, selector, type in {text, attr} (default text), attr optional
Selector ==
    {[name |-> "f", selector |-> "css", type |-> t, attr |-> a] :
        t \in {"text", "attr"}, a \in {None, "href"}}

\* class SearchConfig: input_selector is a required str, the others optional
SearchConfig ==
    [input_selector : {"", "#q"},
     submit_selector : {None},
     results_selector : {None},
     detail_ready_selector : {None},
     back_to_search_selector : {None}]

\* RunRequest.search = None (the block is missing)
NoSearch ==
    [input_selector |-> None, submit_selector |-> None, results_selector |-> None,
     detail_ready_selector |-> None, back_to_search_selector |-> None]

\* class RunRequest: the fields the handler and the task read; of the selectors, one
\* of each type, with attr left out
RunRequest ==
    [mode : {"append", "search"},
     input_list : {<<"a">>},
     selectors : {<<s>> : s \in {x \in Selector : x.attr = None}},
     base_url : {None, "", "u"},
     start_url : {None, "u"},
     search : {NoSearch} \cup SearchConfig]

\* the requests a behaviour submits: the fields of the other mode are left unset
Requests ==
    {q \in RunRequest :
        /\ q.mode = "append" => q.start_url = None /\ q.search = NoSearch
        /\ q.mode = "search" => q.base_url = None}

----------------------------------------------------------------------------
(* state.py *)

NoPath == -1        \* "output_path": None
NoTime == -1        \* "finished_at": None

\* created_at is written here and never read or written again: it is left out
new_run(R, run_id, payload) ==
    [x \in DOMAIN R \cup {run_id} |->
        IF x = run_id
        THEN [id |-> run_id,
              status |-> "queued",
              finished_at |-> NoTime,
              stats |-> [total |-> 0, ok |-> 0, err |-> 0],
              error |-> None,
              output_path |-> NoPath,
              payload |-> payload]
        ELSE R[x]]

\* faulty variant: the fields are written to every record of the registry
update_run_all(R, run_id, fields) ==
    [x \in DOMAIN R |->
        [k \in DOMAIN R[x] |-> IF k \in DOMAIN fields THEN fields[k] ELSE R[x][k]]]

\* RUNS[run_id].update(fields): fields is a record, its keys override the run's
update_run(R, run_id, fields) ==
    [R EXCEPT ![run_id] =
        [k \in DOMAIN R[run_id] |->
            IF k \in DOMAIN fields THEN fields[k] ELSE R[run_id][k]]]

\* RUNS.get(run_id): the record, or NoRun for Python's None
NoRun == [missing |-> TRUE]

get_run(R, run_id) == IF run_id \in DOMAIN R THEN R[run_id] ELSE NoRun

----------------------------------------------------------------------------
(* runner.py: the frame of one call of scrape_append_to_csv or            *)
(* scrape_search_to_csv                                                    *)

\* the search dict of scrape_search_to_csv, read with search.get(...)
SearchDicts ==
    [input_selector : {"#q"},
     submit_selector : {None, "#go"},
     results_selector : {None, "#res"},
     detail_ready_selector : {None, "#detail"},
     back_to_search_selector : {None, "#back"},
     disclaimer_selector : {None, "#ok"},
     disclaimer_click_each : BOOLEAN]

NoDict ==
    [input_selector |-> None, submit_selector |-> None, results_selector |-> None,
     detail_ready_selector |-> None, back_to_search_selector |-> None,
     disclaimer_selector |-> None, disclaimer_click_each |-> FALSE]

\* _now_ts(): the clock to the second; _mk_output_path(): exports/scrape_<ts>.csv.
\* A path is named by the timestamp in it.
now_ts == now
mk_output_path == now_ts

(* Besides the function's parameters and locals the frame keeps what the call *)
(* has done to the page: nav, the urls of its page.goto calls in order; and,  *)
(* for the item at hand, backs, the page.go_back() calls since the item began *)
(* or since its row was written; visible, whether the last thing the call saw *)
(* of the page was the search input visible; typed, whether the item's value  *)
(* was typed.                                                                 *)
IdleFrame ==
    [pc |-> "idle", mode |-> None, url |-> None, input_list |-> <<>>,
     selectors |-> <<>>, search |-> NoDict, i |-> 0, total |-> 0, ok |-> 0,
     err |-> 0, out_path |-> NoPath, buf |-> <<>>, nav |-> <<>>, backs |-> 0,
     visible |-> FALSE, typed |-> FALSE]

\* the frame on entry: out_path = _mk_output_path(); total = ok = err = 0; url is
\* base_url or start_url
EntryFrame(mode, url, input_list, selectors, search) ==
    [pc |-> "launch", mode |-> mode, url |-> url, input_list |-> input_list,
     selectors |-> selectors, search |-> search, i |-> 0, total |-> 0, ok |-> 0,
     err |-> 0, out_path |-> mk_output_path, buf |-> <<>>, nav |-> <<>>,
     backs |-> 0, visible |-> FALSE, typed |-> FALSE]

(* The CSV file.  open(out_path, "w") creates or truncates the file and gives *)
(* a handle at offset 0; csv.writer rows go to the handle's buffer (buf) and  *)
(* reach the disk, from offset 0 on, when the with block closes the file.     *)
(* Rows are the unit of the file: a row is a header or a data row.            *)

\* ["input"] + [s.get("name", f"field{i}") for i, s in enumerate(selectors)]
Header(selectors) ==
    [kind |-> "header", input |-> "input",
     data |-> [k \in DOMAIN selectors |-> selectors[k].name]]

\* [item] + [data.get(s.get("name", "")) for s in selectors]
DataRow(item, data) == [kind |-> "data", input |-> item, data |-> data]

open_w(F, path) == [p \in DOMAIN F \cup {path} |-> IF p = path THEN <<>> ELSE F[p]]

\* closing writes the buffer over the file's rows from the first on
close_file(F, path, buf) ==
    [p \in DOMAIN F \cup {path} |->
        IF p # path THEN F[p]
        ELSE IF p \in DOMAIN F /\ Len(F[p]) > Len(buf)
             THEN buf \o SubSeq(F[p], Len(buf) + 1, Len(F[p]))
             ELSE buf]

\* writer.writerow(header), once, before the loop
WriteHeader(f) == [f EXCEPT !.buf = <<Header(f.selectors)>>]

----------------------------------------------------------------------------
(* runner.py: the steps of a call.  A step runs from one await to the next; *)
(* o is the outcome of the awaited browser operation: it returned, it       *)
(* raised PlaywrightTimeout, or it raised another exception.                *)

Outcomes == {"ok", "timeout", "error"}

Item(f) == f.input_list[f.i]

\* _extract_fields: a value per selector; a failure gives None for that field and
\* never raises
extract_fields(selectors, o) ==
    [k \in DOMAIN selectors |->
        LET sel == selectors[k] IN
        IF ~Truthy(sel.selector) THEN None
        ELSE IF sel.type = "text" THEN (IF o = "ok" THEN "v" ELSE None)
        ELSE IF sel.type = "attr"
             THEN (IF ~Truthy(sel.attr) THEN None
                   ELSE IF o = "ok" THEN "v" ELSE None)
        ELSE IF sel.type = "html" THEN (IF o = "ok" THEN "v" ELSE None)
        ELSE None]

\* faulty variant: the header is written again with every row
RecordRowWithHeader(f, o) ==
    [f EXCEPT !.buf = @ \o <<Header(f.selectors),
                               DataRow(Item(f), extract_fields(f.selectors, o))>>,
              !.ok = @ + 1]

\* data = await _extract_fields(...); writer.writerow([item] + ...); ok += 1
RecordRow(f, o) ==
    [f EXCEPT !.buf = Append(@, DataRow(Item(f), extract_fields(f.selectors, o))),
              !.ok = @ + 1]

\* except Exception: err += 1, and on to the delay
ItemFailed(f) == [f EXCEPT !.err = @ + 1, !.pc = "sleep"]

\* an exception leaves the function
Raise(f) == [f EXCEPT !.pc = "raised"]

\* the first await of an item
FirstPc(f) ==
    IF f.mode = "append" THEN "goto"
    ELSE IF Truthy(f.search.disclaimer_selector) /\ f.search.disclaimer_click_each
         THEN "disclaimer_each"
         ELSE "ensure"

\* for item in input_list: total += 1 ...; after the last item the with block
\* closes the file.  What the frame keeps about the item at hand starts afresh.
NextItem(f) ==
    LET g == [f EXCEPT !.backs = 0, !.visible = FALSE, !.typed = FALSE] IN
    IF f.i < Len(f.input_list)
    THEN [g EXCEPT !.i = @ + 1, !.total = @ + 1, !.pc = FirstPc(f)]
    ELSE [g EXCEPT !.pc = "close"]

\* page.goto(url): the navigation is issued whatever comes of it
Goto(f, url) == [f EXCEPT !.nav = Append(@, url), !.visible = FALSE]

\* faulty variant: the history-back is repeated
GoBackTwice(f) == [f EXCEPT !.backs = @ + 2, !.visible = FALSE]

\* page.go_back(): issued whatever comes of it
GoBack(f) == [f EXCEPT !.backs = @ + 1, !.visible = FALSE]

\* faulty variant: the call goes on without having waited for the search input
NotWaitedFor(f) == [f EXCEPT !.visible = FALSE]

\* page.wait_for_selector(input_selector, state="visible") returned
Seen(f) == [f EXCEPT !.visible = TRUE]

\* faulty variant: a separator is put between the base url and the item
AppendUrlWithSlash(base_url, item) == base_url \o "/" \o item

\* url = f"{base_url}{item}"
AppendUrl(base_url, item) == base_url \o item

scrape_append_to_csv(f, o) ==
    CASE f.pc = "launch" ->
            IF o = "ok" THEN NextItem(WriteHeader(f)) ELSE Raise(f)
      [] f.pc = "goto" ->
            LET g == Goto(f, AppendUrl(f.url, Item(f))) IN
            IF o = "ok" THEN [g EXCEPT !.pc = "wait_loaded"] ELSE ItemFailed(g)
      [] f.pc = "wait_loaded" ->
            IF o = "ok" THEN [f EXCEPT !.pc = "extract"] ELSE ItemFailed(f)
      [] f.pc = "extract" -> [RecordRow(f, o) EXCEPT !.pc = "sleep"]
      [] f.pc = "sleep" -> NextItem(f)
      [] f.pc = "close" ->
            IF o = "ok" THEN [f EXCEPT !.pc = "returned"] ELSE Raise(f)

\* after the submit: the results list when configured, else the detail wait
AfterSubmit(f) ==
    IF Truthy(f.search.results_selector)
    THEN [f EXCEPT !.pc = "results"]
    ELSE [f EXCEPT !.pc = "detail"]

\* after the row: the way back to the search page
AfterRow(f) ==
    IF Truthy(f.search.back_to_search_selector)
    THEN [f EXCEPT !.pc = "back_click", !.backs = 0]
    ELSE [f EXCEPT !.pc = "back_history", !.backs = 0]

scrape_search_to_csv(f, o) ==
    CASE f.pc = "launch" ->
            IF o = "ok" THEN [f EXCEPT !.pc = "start_goto"] ELSE Raise(f)
      [] f.pc = "start_goto" ->
            LET g == Goto(f, f.url) IN
            IF o = "ok" THEN [g EXCEPT !.pc = "start_load"] ELSE Raise(g)
      [] f.pc = "start_load" ->
            IF o # "ok" THEN Raise(f)
            ELSE IF Truthy(f.search.disclaimer_selector)
                    /\ ~f.search.disclaimer_click_each
                 THEN [f EXCEPT !.pc = "disclaimer_once"]
                 ELSE NextItem(WriteHeader(f))
      [] f.pc = "disclaimer_once" -> NextItem(WriteHeader(f))
      [] f.pc = "disclaimer_each" ->
            LET g == Goto(f, f.url) IN
            IF o = "ok" THEN [Seen(g) EXCEPT !.pc = "ensure"] ELSE ItemFailed(g)
      [] f.pc = "ensure" ->
            IF o = "ok" THEN [Seen(f) EXCEPT !.pc = "type"]
            ELSE IF o = "timeout" THEN [f EXCEPT !.pc = "ensure_back", !.visible = FALSE]
            ELSE ItemFailed(f)
      [] f.pc = "ensure_back" ->
            LET g == GoBack(f) IN
            IF o = "ok" THEN [g EXCEPT !.pc = "ensure_recheck"] ELSE ItemFailed(g)
      [] f.pc = "ensure_recheck" ->
            IF o = "ok" THEN [Seen(f) EXCEPT !.pc = "type"] ELSE ItemFailed(f)
      [] f.pc = "type" ->
            IF o = "ok" THEN [Seen(f) EXCEPT !.pc = "submit", !.typed = TRUE]
            ELSE ItemFailed(f)
      [] f.pc = "submit" ->
            IF Truthy(f.search.submit_selector) /\ o = "ok"
            THEN AfterSubmit([f EXCEPT !.visible = FALSE]) ELSE ItemFailed(f)
      [] f.pc = "results" ->
            IF o = "ok" THEN [f EXCEPT !.pc = "detail"] ELSE ItemFailed(f)
      [] f.pc = "detail" ->
            IF Truthy(f.search.detail_ready_selector) /\ o = "ok"
            THEN [f EXCEPT !.pc = "extract"] ELSE ItemFailed(f)
      [] f.pc = "extract" -> AfterRow(RecordRow(f, o))
      [] f.pc = "back_click" ->
            IF o = "ok" THEN [Seen(f) EXCEPT !.pc = "sleep"] ELSE ItemFailed(f)
      [] f.pc = "back_history" ->
            LET g == GoBack(f) IN
            IF o = "ok" THEN [g EXCEPT !.pc = "back_check"] ELSE ItemFailed(g)
      [] f.pc = "back_check" ->
            IF o = "ok" THEN [Seen(f) EXCEPT !.pc = "sleep"]
            ELSE IF o = "timeout" THEN [f EXCEPT !.pc = "back_again"]
            ELSE ItemFailed(f)
      [] f.pc = "back_again" ->
            LET g == GoBack(f) IN
            IF o = "ok" THEN [g EXCEPT !.pc = "back_recheck"] ELSE ItemFailed(g)
      [] f.pc = "back_recheck" ->
            IF o = "ok" THEN [Seen(f) EXCEPT !.pc = "sleep"] ELSE ItemFailed(f)
      [] f.pc = "sleep" -> NextItem(f)
      [] f.pc = "close" ->
            IF o = "ok" THEN [f EXCEPT !.pc = "returned"] ELSE Raise(f)

Running(f) == f.pc \notin {"idle", "returned", "raised"}

\* the disk after a step from frame f to frame g: the file is opened in the step
\* that writes the header and closed in the step that leaves the loop
Disk(F, f, g) ==
    LET opened == IF f.buf = <<>> /\ g.buf # <<>> THEN open_w(F, f.out_path) ELSE F
    IN  IF g.pc = "close" THEN close_file(opened, f.out_path, g.buf) ELSE opened

AppendStep(r) ==
    /\ Running(inv[r]) /\ inv[r].mode = "append"
    /\ \E o \in Outcomes :
        LET g == scrape_append_to_csv(inv[r], o) IN
        /\ inv' = [inv EXCEPT ![r] = g]
        /\ files' = Disk(files, inv[r], g)
    /\ UNCHANGED <<RUNS, task, resp, now>>

SearchStep(r) ==
    /\ Running(inv[r]) /\ inv[r].mode = "search"
    /\ \E o \in Outcomes :
        LET g == scrape_search_to_csv(inv[r], o) IN
        /\ inv' = [inv EXCEPT ![r] = g]
        /\ files' = Disk(files, inv[r], g)
    /\ UNCHANGED <<RUNS, task, resp, now>>

\* a direct call of a runner function; a finished call's slot is not reused
CallAppend(r, base_url, input_list, selectors) ==
    /\ inv[r].pc = "idle"
    /\ inv' = [inv EXCEPT ![r] =
                  EntryFrame("append", base_url, input_list, selectors, NoDict)]
    /\ UNCHANGED <<RUNS, task, resp, now, files>>

CallSearch(r, start_url, input_list, selectors, search) ==
    /\ inv[r].pc = "idle"
    /\ inv' = [inv EXCEPT ![r] =
                  EntryFrame("search", start_url, input_list, selectors, search)]
    /\ UNCHANGED <<RUNS, task, resp, now, files>>

----------------------------------------------------------------------------
(* main.py: POST /run *)

\* faulty variant: search mode checks start_url alone
ModeFieldsPresentNoSearchCheck(req) ==
    IF req.mode = "append" THEN Truthy(req.base_url) ELSE Truthy(req.start_url)

\* run_job's checks of the mode's fields: TRUE when the request passes
ModeFieldsPresent(req) ==
    IF req.mode = "append"
    THEN Truthy(req.base_url)
    ELSE IF req.mode = "search"
         THEN /\ Truthy(req.start_url)
              /\ req.search # NoSearch
              /\ Truthy(req.search.input_selector)
         ELSE FALSE

\* str(uuid.uuid4()): an id no run has
uuid4 == CHOOSE id \in RunIds : id \notin DOMAIN RUNS /\ \A x \in DOMAIN RUNS : x < id

\* an HTTP answer: the status code and, of the body, the run's status, its stats
\* and the path of the file served
NoStats == [total |-> 0, ok |-> 0, err |-> 0]

Answer(op, run_id, code, status, stats, path) ==
    [op |-> op, run_id |-> run_id, code |-> code, status |-> status,
     stats |-> stats, path |-> path]

\* faulty variant: the record is left queued for the background task to start it
run_job_leaves_queued(req) ==
    /\ IF ~ModeFieldsPresent(req)
       THEN /\ resp' = Answer("run", 0, 422, None, NoStats, NoPath)
            /\ UNCHANGED <<RUNS, task>>
       ELSE /\ DOMAIN RUNS # RunIds
            /\ LET run_id == uuid4 IN
                /\ RUNS' = new_run(RUNS, run_id, req)
                /\ task' = [task EXCEPT ![run_id] = "scheduled"]
                /\ resp' = Answer("run", run_id, 200, "queued", NoStats, NoPath)
    /\ UNCHANGED <<now, files, inv>>

run_job(req) ==
    /\ IF ~ModeFieldsPresent(req)
       THEN /\ resp' = Answer("run", 0, 422, None, NoStats, NoPath)
            /\ UNCHANGED <<RUNS, task>>
       ELSE /\ DOMAIN RUNS # RunIds
            /\ LET run_id == uuid4 IN
                /\ RUNS' = update_run(new_run(RUNS, run_id, req), run_id,
                                      [status |-> "running"])
                /\ task' = [task EXCEPT ![run_id] = "scheduled"]
                /\ resp' = Answer("run", run_id, 200, "running", NoStats, NoPath)
    /\ UNCHANGED <<now, files, inv>>

----------------------------------------------------------------------------
(* main.py: the background task _do *)

\* the parameters of the runner functions (runner.py) and the keywords _do passes
AppendParams ==
    {"base_url", "input_list", "selectors", "headless", "delay_ms_min",
     "delay_ms_max", "timeout_ms"}
AppendRequired == {"base_url", "input_list", "selectors"}
SearchParams ==
    {"start_url", "input_list", "selectors", "search", "headless", "delay_ms_min",
     "delay_ms_max", "timeout_ms"}
SearchRequired == {"start_url", "input_list", "selectors", "search"}
AppendKeywords ==
    {"base_url", "input_list", "selectors", "headless", "delay_ms_min",
     "delay_ms_max", "timeout_ms", "run_id"}
SearchKeywords ==
    {"start_url", "input_list", "selectors", "input_selector", "submit_selector",
     "results_selector", "detail_ready_selector", "back_to_search_selector",
     "headless", "delay_ms_min", "delay_ms_max", "timeout_ms", "run_id"}

\* Python binds a keyword call when every keyword names a parameter and every
\* parameter without a default gets a value; otherwise the call raises TypeError
CallBinds(params, required, keywords) ==
    keywords \subseteq params /\ required \subseteq keywords

ScrapeCallBinds(mode) ==
    IF mode = "append"
    THEN CallBinds(AppendParams, AppendRequired, AppendKeywords)
    ELSE CallBinds(SearchParams, SearchRequired, SearchKeywords)

\* faulty variant: the task stays scheduled after it recorded the error, and runs again
DoExceptAndRetry(run_id, e) ==
    /\ RUNS' = update_run(RUNS, run_id,
                          [status |-> "error", finished_at |-> now, error |-> e])
    /\ UNCHANGED <<task, inv>>

\* faulty variant: the error path records an output path as well
DoExceptWithPath(run_id, e) ==
    /\ RUNS' = update_run(RUNS, run_id,
                          [status |-> "error", finished_at |-> now, error |-> e,
                           output_path |-> mk_output_path])
    /\ task' = [task EXCEPT ![run_id] = "finished"]
    /\ UNCHANGED inv

\* faulty variant: the except branch ends the task and leaves the record as it is
DoExceptUnrecorded(run_id, e) ==
    /\ task' = [task EXCEPT ![run_id] = "finished"]
    /\ UNCHANGED <<RUNS, inv>>

\* faulty variant: the except branch closes the run as done
DoExceptMarksDone(run_id, e) ==
    /\ RUNS' = update_run(RUNS, run_id,
                          [status |-> "done", finished_at |-> now, error |-> e])
    /\ task' = [task EXCEPT ![run_id] = "finished"]
    /\ UNCHANGED inv

\* the except branch: update_run(run_id, status="error", finished_at=..., error=...)
DoExcept(run_id, e) ==
    /\ RUNS' = update_run(RUNS, run_id,
                          [status |-> "error", finished_at |-> now, error |-> e])
    /\ task' = [task EXCEPT ![run_id] = "finished"]
    /\ UNCHANGED inv

\* _do from its start to the first await that suspends it, and from the return of
\* the scrape function to its end
Do(run_id) ==
    /\ run_id \in DOMAIN RUNS
    /\ IF task[run_id] = "scheduled"
       THEN LET req == RUNS[run_id].payload IN
            IF ScrapeCallBinds(req.mode)
            THEN /\ inv' = [inv EXCEPT ![run_id] =
                      EntryFrame(req.mode,
                                 IF req.mode = "append" THEN req.base_url
                                                        ELSE req.start_url,
                                 req.input_list, req.selectors,
                                 [k \in DOMAIN NoDict |->
                                     IF k \in DOMAIN req.search
                                     THEN req.search[k] ELSE NoDict[k]])]
                 /\ task' = [task EXCEPT ![run_id] = "awaiting"]
                 /\ UNCHANGED RUNS
            ELSE DoExcept(run_id, "TypeError")
       ELSE /\ task[run_id] = "awaiting"
            /\ inv[run_id].pc \in {"returned", "raised"}
            /\ IF inv[run_id].pc = "raised"
               THEN DoExcept(run_id, "Error")
               ELSE IF inv[run_id].out_path \notin DOMAIN files
                    THEN DoExcept(run_id, "RuntimeError")
                    ELSE /\ RUNS' = update_run(RUNS, run_id,
                                [status |-> "done",
                                 finished_at |-> now,
                                 stats |-> [total |-> inv[run_id].total,
                                            ok |-> inv[run_id].ok,
                                            err |-> inv[run_id].err],
                                 output_path |-> inv[run_id].out_path])
                         /\ task' = [task EXCEPT ![run_id] = "finished"]
                         /\ UNCHANGED inv
    /\ UNCHANGED <<resp, now, files>>

----------------------------------------------------------------------------
(* main.py: GET /runs/{run_id} and GET /runs/{run_id}/download *)

runs_status(run_id) ==
    /\ LET info == get_run(RUNS, run_id) IN
        IF info = NoRun
        THEN resp' = Answer("status", run_id, 404, None, NoStats, NoPath)
        ELSE resp' = Answer("status", run_id, 200, info.status, info.stats,
                             info.output_path)
    /\ UNCHANGED <<RUNS, task, now, files, inv>>

\* faulty variant: the file is served whatever the run's status
runs_download_any_status(run_id) ==
    /\ LET info == get_run(RUNS, run_id) IN
        IF info = NoRun
        THEN resp' = Answer("download", run_id, 404, None, NoStats, NoPath)
        ELSE resp' = Answer("download", run_id, 200, info.status, info.stats,
                             info.output_path)
    /\ UNCHANGED <<RUNS, task, now, files, inv>>

\* FileResponse(path=info["output_path"]): the answer names the file served
runs_download(run_id) ==
    /\ LET info == get_run(RUNS, run_id) IN
        IF info = NoRun
        THEN resp' = Answer("download", run_id, 404, None, NoStats, NoPath)
        ELSE IF info.status # "done" \/ info.output_path = NoPath
             THEN resp' = Answer("download", run_id, 409, None, NoStats, NoPath)
             ELSE resp' = Answer("download", run_id, 200, info.status, info.stats,
                                  info.output_path)
    /\ UNCHANGED <<RUNS, task, now, files, inv>>

\* the clock advances
Tick ==
    /\ now < MaxClock
    /\ now' = now + 1
    /\ UNCHANGED <<RUNS, task, resp, files, inv>>

----------------------------------------------------------------------------
(* The service *)

Init ==
    /\ RUNS = <<>>
    /\ task = [r \in RunIds |-> "none"]
    /\ resp = Answer("none", 0, 0, None, NoStats, NoPath)
    /\ now = 0
    /\ files = <<>>
    /\ inv = [r \in RunIds |-> IdleFrame]

Next ==
    \/ \E req \in Requests : run_job(req)
    \/ \E run_id \in RunIds : Do(run_id)
    \/ \E run_id \in 0..MaxRuns : runs_status(run_id)
    \/ \E run_id \in 0..MaxRuns : runs_download(run_id)
    \/ Tick

Spec == Init /\ [][Next]_vars

\* asyncio.create_task(_do()): the event loop runs every task that is ready, so a
\* task that can take a step takes it
SpecFair == Spec /\ \A run_id \in RunIds : WF_vars(Do(run_id))

----------------------------------------------------------------------------
(* The runner functions called directly *)

\* the arguments of the direct calls
BaseUrls == {"u/", "u?q="}
StartUrl == "u"
SelectorLists == {<<s>> : s \in {x \in Selector : x.type = "text" => x.attr = None}}
CallDicts == {d \in SearchDicts : d.disclaimer_click_each => Truthy(d.disclaimer_selector)}

\* one call at a time, with every configuration (the call is in slot 1)
NextRunner ==
    \/ \E b \in BaseUrls, l \in InputLists, s \in SelectorLists : CallAppend(1, b, l, s)
    \/ \E l \in InputLists, s \in SelectorLists, d \in CallDicts :
          CallSearch(1, StartUrl, l, s, d)
    \/ AppendStep(1)
    \/ SearchStep(1)
    \/ Tick

SpecRunner == Init /\ [][NextRunner]_vars

\* the arguments of the concurrent calls: single-item lists, one selector list, the
\* search dict with every selector set and no disclaimer
ShortLists == {<<"a">>, <<"b">>}
PlainSelectors == <<[name |-> "f", selector |-> "css", type |-> "text", attr |-> None]>>
PlainDict ==
    [input_selector |-> "#q", submit_selector |-> "#go", results_selector |-> "#res",
     detail_ready_selector |-> "#detail", back_to_search_selector |-> "#back",
     disclaimer_selector |-> None, disclaimer_click_each |-> FALSE]

\* several calls on the one event loop, interleaved at their awaits
NextConcurrent ==
    \/ \E r \in RunIds, l \in ShortLists : CallAppend(r, "u/", l, PlainSelectors)
    \/ \E r \in RunIds, l \in ShortLists :
          CallSearch(r, StartUrl, l, PlainSelectors, PlainDict)
    \/ \E r \in RunIds : AppendStep(r)
    \/ \E r \in RunIds : SearchStep(r)
    \/ Tick

SpecConcurrent == Init /\ [][NextConcurrent]_vars

----------------------------------------------------------------------------
(* The claims *)

Called(r) == inv[r].pc # "idle"
\* the item loop of call r has completed (the file is closed)
LoopDone(r) == inv[r].pc \in {"close", "returned"}
DataRows(rows) == SelectSeq(rows, LAMBDA row : row.kind = "data")
Terminal(status) == status \in {"done", "error"}

\* C1: when the item loop of a call has completed, the CSV holds exactly
\* len(input_list) data rows and the i-th data row is the i-th input's, whatever the
\* outcomes of the items.
C1_RowPerItem ==
    \A r \in RunIds :
        LoopDone(r) /\ inv[r].out_path \in DOMAIN files =>
            LET rows == DataRows(files[inv[r].out_path]) IN
            /\ Len(rows) = Len(inv[r].input_list)
            /\ \A k \in 1..Len(rows) : rows[k].input = inv[r].input_list[k]

\* C2: when the item loop has finished, total = ok + err: every item is counted in
\* exactly one of ok and err, failures of the return-to-search step included.
C2_CountersAddUp ==
    \A r \in RunIds :
        LoopDone(r) =>
            /\ inv[r].total = Len(inv[r].input_list)
            /\ inv[r].total = inv[r].ok + inv[r].err

\* C3: a run accepted by POST /run ends with status done, every item counted in its
\* stats (the unreachable item in err, the others in ok).
C3_RunEndsDone ==
    \A id \in DOMAIN RUNS :
        task[id] = "finished" =>
            /\ RUNS[id].status = "done"
            /\ RUNS[id].stats.total = Len(RUNS[id].payload.input_list)
            /\ RUNS[id].stats.total = RUNS[id].stats.ok + RUNS[id].stats.err

\* C4: done and error are absorbing: once a run's record has status done or error,
\* no step changes its status, stats, output_path, error or finished_at.
C4_TerminalAbsorbing ==
    [][\A id \in DOMAIN RUNS :
          Terminal(RUNS[id].status) =>
              /\ id \in DOMAIN RUNS'
              /\ RUNS'[id].status = RUNS[id].status
              /\ RUNS'[id].stats = RUNS[id].stats
              /\ RUNS'[id].output_path = RUNS[id].output_path
              /\ RUNS'[id].error = RUNS[id].error
              /\ RUNS'[id].finished_at = RUNS[id].finished_at]_vars

\* a run reached error and the service went on: a later run was accepted, ran into
\* its own error at a later second, and the first run was read again
C4_Witness ==
    /\ DOMAIN RUNS = {1, 2}
    /\ RUNS[1].status = "error" /\ RUNS[2].status = "error"
    /\ RUNS[1].finished_at < RUNS[2].finished_at
    /\ resp.op = "status" /\ resp.run_id = 1 /\ resp.status = "error"

\* C5: in every state of the registry a run's output_path is set if and only if its
\* status is done, and a path that is set names a file that exists.
C5_OutputPathIffDone ==
    \A id \in DOMAIN RUNS :
        /\ RUNS[id].output_path # NoPath <=> RUNS[id].status = "done"
        /\ RUNS[id].output_path # NoPath => RUNS[id].output_path \in DOMAIN files

\* runs in each status the service reaches, none of them with a path
C5_Witness ==
    /\ DOMAIN RUNS = {1, 2}
    /\ RUNS[1].status = "error" /\ RUNS[1].finished_at # NoTime
    /\ RUNS[1].output_path = NoPath
    /\ RUNS[2].status = "running" /\ RUNS[2].output_path = NoPath

\* C6: the download answers 404 for an unknown run id, 409 for a run that is
\* queued, running or in error, and serves a file only of a run that is done, whose
\* file exists.
C6_DownloadOnlyWhenDone ==
    [][\A id \in 0..MaxRuns :
          runs_download(id) =>
              /\ id \notin DOMAIN RUNS <=> resp'.code = 404
              /\ id \in DOMAIN RUNS /\ RUNS[id].status # "done" => resp'.code = 409
              /\ resp'.code = 200 =>
                    /\ RUNS[id].status = "done"
                    /\ resp'.path \in DOMAIN files]_vars

\* the download of a run in error was refused
C6_Witness ==
    /\ resp.op = "download" /\ resp.code = 409
    /\ resp.run_id \in DOMAIN RUNS
    /\ RUNS[resp.run_id].status = "error"

\* C7: any two runs, also two started within the same clock second, resolve
\* distinct output paths.
C7_DistinctPaths ==
    \A r1, r2 \in RunIds :
        r1 # r2 /\ Called(r1) /\ Called(r2) => inv[r1].out_path # inv[r2].out_path

\* the mode-required fields a submission lacks, in the claim's words
C8_Incomplete(req) ==
    \/ req.mode = "append" /\ req.base_url \in {None, ""}
    \/ req.mode = "search" /\ \/ req.start_url = None
                              \/ req.search = NoSearch
                              \/ req.search.input_selector = ""

\* C8: POST /run with a mode-required field missing or empty is answered 422 and
\* leaves the registry, the tasks, the runner calls and the files as they were.
C8_RejectedBeforeAnyRun ==
    [][\A req \in Requests :
          C8_Incomplete(req) /\ run_job(req) =>
              /\ resp'.code = 422
              /\ RUNS' = RUNS /\ task' = task /\ inv' = inv /\ files' = files]_vars

\* a submission was rejected while the registry held a run
C8_Witness ==
    /\ resp.op = "run" /\ resp.code = 422
    /\ DOMAIN RUNS # {}

\* C9: no run record is created for a submission with a selector of type attr that
\* has no, or an empty, attribute name.
C9_AttrNeedsName ==
    \A id \in DOMAIN RUNS :
        \A k \in DOMAIN RUNS[id].payload.selectors :
            LET sel == RUNS[id].payload.selectors[k] IN
            sel.type = "attr" => Truthy(sel.attr)

\* C10: in every output file the header row is written exactly once and before any
\* data row, for every batch size and in both modes, whatever the outcomes of the
\* items: what a call has written starts with its one header, it is written before
\* the first item is taken, and the file of a completed call holds it once, first.
HeaderOnceFirst(rows) ==
    /\ Len(rows) >= 1
    /\ rows[1].kind = "header"
    /\ \A k \in 2..Len(rows) : rows[k].kind = "data"

C10_HeaderOnceFirst ==
    /\ \A r \in RunIds :
        /\ inv[r].buf # <<>> => HeaderOnceFirst(inv[r].buf)
        /\ inv[r].i >= 1 => inv[r].buf # <<>>
        /\ LoopDone(r) =>
              /\ inv[r].out_path \in DOMAIN files
              /\ HeaderOnceFirst(files[inv[r].out_path])
              /\ files[inv[r].out_path][1] = Header(inv[r].selectors)
    /\ \A p \in DOMAIN files : files[p] # <<>> => HeaderOnceFirst(files[p])

\* a search call over two items returned, one item recorded and one failed
C10_Witness ==
    /\ inv[1].pc = "returned" /\ inv[1].mode = "search"
    /\ Len(inv[1].input_list) = 2
    /\ inv[1].ok = 1 /\ inv[1].err >= 1
    /\ Len(files[inv[1].out_path]) = 2

\* the errors that the browser or the file system brings on a run
EnvironmentErrors == {"Error", "RuntimeError"}

\* C11: while a run is running its record's counters follow the item loop: every
\* accepted run that the browser or the file system does not fail is, after its last
\* item was processed and before it finishes, in status running with total equal to
\* the number of its items, for a status read to see.
C11_CountersFollowLoop ==
    \A id \in RunIds :
        (id \in DOMAIN RUNS) ~>
            (/\ id \in DOMAIN RUNS
             /\ \/ RUNS[id].error \in EnvironmentErrors
                \/ /\ RUNS[id].status = "running"
                   /\ RUNS[id].stats.total = Len(RUNS[id].payload.input_list))

\* the step of a call by its mode
Step(f, o) ==
    IF f.mode = "append" THEN scrape_append_to_csv(f, o) ELSE scrape_search_to_csv(f, o)

\* where a call awaits a navigation or an element wait of the page
PageWaits ==
    {"goto", "wait_loaded", "start_goto", "start_load", "disclaimer_once",
     "disclaimer_each", "ensure", "ensure_back", "ensure_recheck", "type", "submit",
     "results", "detail", "back_click", "back_history", "back_check", "back_again",
     "back_recheck"}

\* C12: a timeout of a navigation or an element wait, inside the item loop or before
\* it (the first page.goto(start_url) and its load wait in search mode), is an
\* ordinary item failure: wherever a call awaits such an operation, its timing out
\* does not make the call raise (which is what moves a run to status error), and the
\* call goes on with the items that remain.
C12_TimeoutIsItemFailure ==
    \A r \in RunIds :
        Running(inv[r]) /\ inv[r].pc \in PageWaits =>
            LET g == Step(inv[r], "timeout") IN
            g.pc # "raised" /\ Running(g)

\* C13: the navigations of an append call are base_url ++ item for each item of
\* input_list, in input order: one page.goto per item, also for an item that failed
\* (no retry), the next item's only after the one before was finished, and the item
\* joined to base_url as it is.
C13_AppendNavigations ==
    \A r \in RunIds :
        inv[r].mode = "append" =>
            LET f == inv[r]
                m == IF f.pc = "goto" THEN f.i - 1 ELSE f.i
            IN  /\ Len(f.nav) = m
                /\ \A k \in 1..m : f.nav[k] = f.url \o f.input_list[k]
                /\ LoopDone(r) => m = Len(f.input_list)

\* an append call over two items returned, one item recorded and one failed
C13_Witness ==
    /\ inv[1].pc = "returned" /\ inv[1].mode = "append"
    /\ inv[1].input_list = <<"b", "a">>
    /\ inv[1].ok = 1 /\ inv[1].err = 1
    /\ inv[1].nav = <<"u?q=b", "u?q=a">>

\* C14: each record has a single writer: a step changes the record of a run only if
\* it is a step of that run's own task, so the creation, the start and the
\* finalization of one run leave the record of every other run as it was; no record
\* ever goes away; and a status or download read leaves every record as it was.
C14_SingleWriter ==
    [][/\ \A id \in DOMAIN RUNS :
              /\ id \in DOMAIN RUNS'
              /\ RUNS'[id] # RUNS[id] => Do(id)
       /\ \A id \in 0..MaxRuns : runs_status(id) \/ runs_download(id) => RUNS' = RUNS
       /\ resp'.op \in {"status", "download"} /\ resp' # resp => RUNS' = RUNS]_vars

\* two runs at once: the later run was finalized, and the status of the earlier one,
\* whose task has not run yet, was read after that
C14_Witness ==
    /\ DOMAIN RUNS = {1, 2}
    /\ RUNS[2].status = "error"
    /\ RUNS[1].status = "running" /\ task[1] = "scheduled"
    /\ resp.op = "status" /\ resp.run_id = 1 /\ resp.status = "running"

\* the scrape call of run id returned with every item taken and its file is there
ScrapedToFile(id) ==
    /\ inv[id].pc = "returned"
    /\ inv[id].i = Len(RUNS[id].payload.input_list)
    /\ inv[id].out_path \in DOMAIN files

\* C15: a run's status becomes done only in a step taken after the scrape call
\* returned, with every item of input_list processed, and the output file was found
\* to exist; a task that ends without that (the call raised, or it returned and the
\* file is missing) leaves the run in error with an error detail and no output_path,
\* never in done.
C15_DoneOnlyAfterFile ==
    [][\A id \in DOMAIN RUNS :
          /\ RUNS'[id].status = "done" /\ RUNS[id].status # "done" => ScrapedToFile(id)
          /\ task[id] # "finished" /\ task'[id] = "finished" /\ ~ScrapedToFile(id) =>
                /\ RUNS'[id].status = "error"
                /\ RUNS'[id].error # None
                /\ RUNS'[id].output_path = NoPath]_vars

\* a task ended with no item processed and no output file; the run is in error with
\* its error detail and without a path, as a status read shows
C15_Witness ==
    /\ 1 \in DOMAIN RUNS /\ task[1] = "finished"
    /\ inv[1].i = 0 /\ files = <<>>
    /\ RUNS[1].status = "error" /\ RUNS[1].error = "TypeError"
    /\ RUNS[1].output_path = NoPath
    /\ resp.op = "status" /\ resp.run_id = 1 /\ resp.status = "error"
    /\ resp.path = NoPath

\* where a search call is on its way back to the search page, the item's row written
ReturnPcs == {"back_click", "back_history", "back_check", "back_again", "back_recheck"}

\* C16: in search mode a failure of the return-to-search step, which comes after the
\* item's row was recorded, is swallowed: no step of the return leaves the item
\* counted otherwise than ok (ok and err stay as they were) and the loop goes on.
C16_ReturnFailureSwallowed ==
    [][\A r \in RunIds :
          inv[r].mode = "search" /\ inv[r].pc \in ReturnPcs =>
              /\ inv'[r].ok = inv[r].ok
              /\ inv'[r].err = inv[r].err
              /\ inv'[r].pc \in ReturnPcs \cup {"sleep"}]_vars

\* where a search call makes sure it is on the search page, before it types
EnsurePcs == {"ensure", "ensure_back", "ensure_recheck"}

\* C17: before it types an item a search call waits the short wait for the search
\* input; only when that wait timed out it issues a history-back, exactly one, and
\* waits again; the item's value is typed only after the input was seen visible, with
\* at most that one history-back issued; and when the second wait fails the item is
\* counted in err with nothing typed or submitted and no row written.
C17_EnsureSearchPage ==
    [][\A r \in RunIds :
          inv[r].mode = "search" =>
              LET f == inv[r]
                  g == inv'[r]
              IN  /\ f.pc \in EnsurePcs => ~f.typed
                  /\ f.pc \in {"ensure", "ensure_back"} => f.backs = 0
                  /\ f.pc = "ensure_recheck" => f.backs = 1
                  /\ g.pc = "ensure_back" /\ f.pc # "ensure_back" =>
                        f.pc = "ensure" /\ ~g.visible
                  /\ g.backs # f.backs /\ f.pc \in EnsurePcs =>
                        f.pc = "ensure_back" /\ g.backs = 1
                  /\ g.pc = "type" /\ f.pc # "type" =>
                        /\ f.pc \in {"ensure", "ensure_recheck"}
                        /\ g.visible /\ g.backs <= 1
                  /\ g.typed /\ ~f.typed => f.pc = "type" /\ f.visible
                  /\ f.pc = "ensure_recheck" /\ g.pc \notin {"ensure_recheck", "type"} =>
                        /\ g.pc = "sleep" /\ g.err = f.err + 1
                        /\ g.ok = f.ok /\ g.buf = f.buf
                        /\ ~g.typed /\ ~g.visible]_vars

\* the first item failed; for the second the short wait timed out, the one
\* history-back brought the search input back, and the item was typed
C17_Witness ==
    /\ inv[1].mode = "search" /\ inv[1].pc = "submit"
    /\ inv[1].i = 2 /\ inv[1].err = 1
    /\ inv[1].backs = 1 /\ inv[1].typed /\ inv[1].visible

\* the return step of a call on a two-hop site (detail, results, search), from the
\* frame f in which the row was just written: the first history-back works and
\* shows the results page, where the short wait for the search input times out; the
\* second works and shows the search page, where the wait returns
TwoHopReturn(f) ==
    LET back1 == scrape_search_to_csv(f, "ok")
        wait1 == scrape_search_to_csv(back1, "timeout")
        back2 == scrape_search_to_csv(wait1, "ok")
        wait2 == scrape_search_to_csv(back2, "ok")
    IN  /\ wait2.pc = "sleep" /\ wait2.visible /\ wait2.backs = 2
        /\ wait2.ok = f.ok /\ wait2.err = f.err /\ wait2.i = f.i

\* C18: with back_to_search_selector unset the return step after an extraction
\* issues one history-back and waits the short wait for the search input; only when
\* that wait timed out it issues a second history-back and waits again; it never
\* issues more than two; the step ends without an exception only with the search
\* input seen visible; and on a two-hop site it ends so, after the second
\* history-back, before the next item is taken.
C18_ReturnByHistory ==
    [][\A r \in RunIds :
          inv[r].mode = "search" /\ ~Truthy(inv[r].search.back_to_search_selector) =>
              LET f == inv[r]
                  g == inv'[r]
              IN  /\ f.pc # "back_click"
                  /\ f.pc = "back_history" => f.backs = 0
                  /\ f.pc \in {"back_check", "back_again"} => f.backs = 1
                  /\ f.pc = "back_recheck" => f.backs = 2
                  /\ f.pc \in ReturnPcs => f.backs <= 2 /\ g.backs <= 2
                  /\ g.pc = "back_again" /\ f.pc # "back_again" =>
                        f.pc = "back_check" /\ ~g.visible
                  /\ g.backs # f.backs /\ f.pc \in ReturnPcs =>
                        f.pc \in {"back_history", "back_again"} /\ g.backs = f.backs + 1
                  /\ f.pc \in ReturnPcs /\ g.pc = "sleep" /\ g.err = f.err =>
                        /\ f.pc \in {"back_check", "back_recheck"}
                        /\ g.visible /\ g.backs \in {1, 2}
                  /\ f.pc = "back_history" => TwoHopReturn(f)]_vars

\* a site with a results page: the item's row was written, the first history-back
\* did not show the search input, the second did, and the item is ok
C18_Witness ==
    /\ inv[1].mode = "search" /\ inv[1].pc = "sleep"
    /\ inv[1].search.back_to_search_selector = None
    /\ inv[1].search.results_selector = "#res"
    /\ inv[1].ok = 1 /\ inv[1].err = 0
    /\ inv[1].backs = 2 /\ inv[1].visible

\* C19: the item's value typed, the search is submitted, by the Enter key when
\* submit_selector is unset and by a click of the control when it is set: wherever a
\* search call is about to submit and the page does as asked, the item goes on
\* towards its detail page and is not counted in err.
C19_SubmitWithoutSelector ==
    \A r \in RunIds :
        inv[r].mode = "search" /\ inv[r].pc = "submit" =>
            LET g == scrape_search_to_csv(inv[r], "ok") IN
            /\ g.pc \in {"results", "detail"}
            /\ g.err = inv[r].err

\* C20: every accepted submission reaches done or error: with the background tasks
\* scheduled fairly, a run that is in the registry is eventually in a terminal
\* status, so no run stays in running forever.
C20_RunsTerminate ==
    \A id \in RunIds :
        (id \in DOMAIN RUNS) ~> (id \in DOMAIN RUNS /\ Terminal(RUNS[id].status))

\* every run the registry can hold was accepted and has reached a terminal status,
\* its task at its end
C20_Witness ==
    /\ DOMAIN RUNS = RunIds
    /\ \A id \in RunIds :
          /\ Terminal(RUNS[id].status) /\ RUNS[id].finished_at # NoTime
          /\ task[id] = "finished"

\* C21: POST /run creates the record and moves it to running in one step, before
\* its task is scheduled: no state of the registry, between any requests, holds a
\* record in status queued; a run whose task is scheduled is running; no status or
\* download answer reports queued; and the answer to an accepted submission reports
\* running.
C21_NeverQueued ==
    /\ \A id \in DOMAIN RUNS : RUNS[id].status # "queued"
    /\ \A id \in RunIds :
          task[id] # "none" => id \in DOMAIN RUNS
    /\ \A id \in RunIds :
          task[id] = "scheduled" => RUNS[id].status = "running"
    /\ resp.op \in {"status", "download"} => resp.status # "queued"
    /\ resp.op = "run" /\ resp.code = 200 => resp.status = "running"

\* two submissions were accepted, neither task has run yet, and the status of the
\* later one was read: running
C21_Witness ==
    /\ DOMAIN RUNS = {1, 2}
    /\ task[1] = "scheduled" /\ task[2] = "scheduled"
    /\ resp.op = "status" /\ resp.run_id = 2 /\ resp.code = 200
    /\ resp.status = "running"

====
